---- MODULE Spec2Model ----
(***************************************************************************)
(* Model of eval/run_eval.py of agentic-helpdesk: the scenario grader      *)
(* (_grade_test), the turn runner (_create_session, _run_turn), the event  *)
(* extractor and the run orchestrator (main).                              *)
(*                                                                         *)
(* Three specifications share the module:                                  *)
(*   Spec      - main(): the run over the scenarios of an evalset, one     *)
(*               action per blocking call or loop step;                    *)
(*   SpecGrade - _grade_test() alone, one action per block of checks, on   *)
(*               inputs drawn from bounded sets;                           *)
(*   SpecExtract - the event extractor of _run_turn() alone, one action    *)
(*               per scan, on event lists drawn from bounded sets.         *)
(*                                                                         *)
(* Python floats are modelled as exact rationals [n, d]; IEEE-754 rounding *)
(* is outside the model.  Python strings are TLA+ strings; Chars spells    *)
(* out the characters of those the text functions look into.               *)
(***************************************************************************)
EXTENDS Integers, Sequences, FiniteSets, TLC

(***************************************************************************)
(* Bounds of the model.                                                    *)
(***************************************************************************)
\* Longest transcript (number of TurnResults) handed to _grade_test.
MaxTurns == 2
\* Longest should_call_tools list of an expectation.
MaxShould == 2
\* Most scenarios in the evalset of a run.
MaxTests == 2
\* Longest event list handed to the event extractor.
MaxEvents == 2

(***************************************************************************)
(* Python values.                                                          *)
(***************************************************************************)
\* Python's None.
None == "None"

\* dict.get(key, default) on a mapping modelled as a function whose domain
\* is the set of keys present.
Get(d, key, default) == IF key \in DOMAIN d THEN d[key] ELSE default

\* The empty dict / the empty expectation.
EmptyDict == <<>>

Range(s) == {s[i] : i \in DOMAIN s}

\* x in list
In(x, list) == \E i \in DOMAIN list : list[i] = x

\* All sequences over S of length at most n.
SeqsUpTo(S, n) == UNION {[1..k -> S] : k \in 0..n}

\* The concatenation of a list of lists, in order.
RECURSIVE Flatten(_)
Flatten(ls) == IF ls = <<>> THEN <<>> ELSE Head(ls) \o Flatten(Tail(ls))

(***************************************************************************)
(* Strings.  Chars(s) is the character sequence of the Python string s.    *)
(***************************************************************************)
Chars(s) ==
  CASE s = ""            -> <<>>
    [] s = "a"           -> <<"a">>
    [] s = "A"           -> <<"A">>
    [] s = "b"           -> <<"b">>
    [] s = "B"           -> <<"B">>
    [] s = "("           -> <<"(">>
    [] s = "?"           -> <<"?">>
    [] s = " "           -> <<" ">>
    [] s = "Ab"          -> <<"A", "b">>
    [] s = "a?"          -> <<"a", "?">>
    [] s = "B??"         -> <<"B", "?", "?">>
    [] s = "1. a"        -> <<"1", ".", " ", "a">>
    [] s = "b\n 2) A?"   -> <<"b", "\n", " ", "2", ")", " ", "A", "?">>
    [] s = "1.a"         -> <<"1", ".", "a">>

\* str.lower() on one character.
LowerChar(c) == CASE c = "A" -> "a" [] c = "B" -> "b" [] OTHER -> c

\* str.lower()
Lower(cs) == [i \in DOMAIN cs |-> LowerChar(cs[i])]

\* needle in haystack (substring test on character sequences).
IsSubstring(needle, hay) ==
  \E i \in 0..(Len(hay) - Len(needle)) :
     \A j \in 1..Len(needle) : hay[i + j] = needle[j]

IsSpace(c) == c \in {" ", "\n", "\t"}
IsDigit(c) == c \in {"0", "1", "2", "3", "4", "5", "6", "7", "8", "9"}

\* bool(txt.strip()): some character is not whitespace.
StripNonEmpty(s) == \E i \in DOMAIN Chars(s) : ~IsSpace(Chars(s)[i])

_count_questions(text) == Cardinality({i \in DOMAIN Chars(text) : Chars(text)[i] = "?"})

\* re.search(r"(?m)^\s*(\d+\.|\d+\))\s+\S+", text): from a line start, optional
\* whitespace, one or more digits, "." or ")", one or more whitespace, a
\* non-whitespace character.
_has_numbered_steps(text) ==
  LET cs == Chars(text)
      n  == Len(cs)
  IN \E i \in 1..n :
       /\ i = 1 \/ cs[i - 1] = "\n"
       /\ \E j \in i..n :
            /\ \A x \in i..(j - 1) : IsSpace(cs[x])
            /\ \E k \in (j + 1)..n :
                 /\ \A x \in j..(k - 1) : IsDigit(cs[x])
                 /\ cs[k] \in {".", ")"}
                 /\ \E l \in (k + 2)..n :
                      /\ \A x \in (k + 1)..(l - 1) : IsSpace(cs[x])
                      /\ ~IsSpace(cs[l])

_contains_any(text, options) ==
  LET low == Lower(Chars(text))
  IN \E i \in DOMAIN options : IsSubstring(Lower(Chars(options[i])), low)

\* re.compile(p) succeeds.  The patterns of the model are literals, except
\* that an unmatched "(" makes a pattern uncompilable (re.error).
Compiles(p) == ~In("(", Chars(p))

\* re.search(p, text, flags=re.IGNORECASE) for a compilable literal pattern.
ReSearch(p, text) == IsSubstring(Lower(Chars(p)), Lower(Chars(text)))

\* any(re.search(p, text, ...) for p in patterns): the patterns are tried in
\* order and any() stops at the first match; an uncompilable pattern reached
\* before a match raises re.error.  "match", "nomatch" or "re.error".
RECURSIVE _match_any_regex(_, _)
_match_any_regex(text, patterns) ==
  IF patterns = <<>> THEN "nomatch"
  ELSE IF ~Compiles(Head(patterns)) THEN "re.error"
  ELSE IF ReSearch(Head(patterns), text) THEN "match"
  ELSE _match_any_regex(text, Tail(patterns))

(***************************************************************************)
(* Scores: exact rationals n/d, d > 0, kept in lowest terms by Times       *)
(* (0 is 0/1; 17/20 and 9/10 are in lowest terms and so are their powers). *)
(***************************************************************************)
Frac(n, d) == [n |-> n, d |-> d]
One == Frac(1, 1)
Zero == Frac(0, 1)

\* Times with the factor of a soft penalty inverted (x /= n/d).
Times_Inverted(x, n, d) == IF n = 0 \/ x.n = 0 THEN Zero ELSE Frac(x.n * d, x.d * n)

\* x *= n/d
Times(x, n, d) == IF n = 0 \/ x.n = 0 THEN Zero ELSE Frac(x.n * n, x.d * d)

FracLeq(a, b) == a.n * b.d <= b.n * a.d
FracEq(a, b) == a.n * b.d = b.n * a.d

\* The float literals of the grader, as numerator and denominator.
HardN == 0
SoftTrajN == 17
SoftTrajD == 20
SoftN == 9
SoftD == 10
\* Weights are kept in tenths: weight w stands for w / WeightScale.
WeightScale == 10
\* threshold = 0.70 = ThresholdN / WeightScale
ThresholdN == 7

(***************************************************************************)
(* _grade_test.  The grading state g holds the four buckets, the details   *)
(* appended so far and the exception raised, if any ("ok" while none).     *)
(***************************************************************************)
Tools == {"kb_search", "create_ticket"}

HasKey(d, key) == key \in DOMAIN d

all_calls(turns) == Flatten([i \in DOMAIN turns |-> turns[i].tool_calls])
calls_by_turn(turns) == [i \in DOMAIN turns |-> turns[i].tool_calls]
final_text(turns) == IF turns # <<>> THEN turns[Len(turns)].assistant_text ELSE ""

\* for x in list: if miss[x]: score *= n/d; details.append(msg[x])
\* miss and msg give, for each element of list, the loop's condition and
\* the detail it appends.
Loop(list, miss, msg, n, d, score, details) ==
  LET f[i \in 0..Len(list)] ==
        IF i = 0 THEN [score |-> score, details |-> details]
        ELSE IF miss[list[i]]
             THEN [score |-> Times(f[i - 1].score, n, d),
                   details |-> Append(f[i - 1].details, msg[list[i]])]
             ELSE f[i - 1]
  IN f[Len(list)]

\* The state of the buckets at entry.
GradeStart ==
  [traj |-> One, content |-> One, safety |-> One, style |-> One,
   total |-> Zero, details |-> <<>>, err |-> "ok"]

\* TrajectoryChecks with a missing must_call_tools entry penalised like a
\* missing should_call_tools entry.
TrajectoryChecks_SoftMust(expect, turns, g) ==
  LET calls == all_calls(turns)
      NotCalled(tool) == ~In(tool, calls)
      Called(tool) == In(tool, calls)
      MsgMissing(tool) == <<"Missing required tool call", tool>>
      MsgDisallowed(tool) == <<"Disallowed tool call occurred", tool>>
      MsgRecommended(tool) == <<"Did not call recommended tool", tool>>
      a == Loop(Get(expect, "must_call_tools", <<>>),
                [x \in Range(Get(expect, "must_call_tools", <<>>)) |-> NotCalled(x)],
                [x \in Range(Get(expect, "must_call_tools", <<>>)) |-> MsgMissing(x)],
                SoftTrajN, SoftTrajD, g.traj, g.details)
      b == Loop(Get(expect, "must_not_call_tools", <<>>),
                [x \in Range(Get(expect, "must_not_call_tools", <<>>)) |-> Called(x)],
                [x \in Range(Get(expect, "must_not_call_tools", <<>>)) |-> MsgDisallowed(x)],
                HardN, 1, a.score, a.details)
      c == Loop(Get(expect, "should_call_tools", <<>>),
                [x \in Range(Get(expect, "should_call_tools", <<>>)) |-> NotCalled(x)],
                [x \in Range(Get(expect, "should_call_tools", <<>>)) |-> MsgRecommended(x)],
                SoftTrajN, SoftTrajD, b.score, b.details)
  IN [g EXCEPT !.traj = c.score, !.details = c.details]

\* must_call_tools, must_not_call_tools, should_call_tools.
TrajectoryChecks(expect, turns, g) ==
  LET calls == all_calls(turns)
      NotCalled(tool) == ~In(tool, calls)
      Called(tool) == In(tool, calls)
      MsgMissing(tool) == <<"Missing required tool call", tool>>
      MsgDisallowed(tool) == <<"Disallowed tool call occurred", tool>>
      MsgRecommended(tool) == <<"Did not call recommended tool", tool>>
      a == Loop(Get(expect, "must_call_tools", <<>>),
                [x \in Range(Get(expect, "must_call_tools", <<>>)) |-> NotCalled(x)],
                [x \in Range(Get(expect, "must_call_tools", <<>>)) |-> MsgMissing(x)],
                HardN, 1, g.traj, g.details)
      b == Loop(Get(expect, "must_not_call_tools", <<>>),
                [x \in Range(Get(expect, "must_not_call_tools", <<>>)) |-> Called(x)],
                [x \in Range(Get(expect, "must_not_call_tools", <<>>)) |-> MsgDisallowed(x)],
                HardN, 1, a.score, a.details)
      c == Loop(Get(expect, "should_call_tools", <<>>),
                [x \in Range(Get(expect, "should_call_tools", <<>>)) |-> NotCalled(x)],
                [x \in Range(Get(expect, "should_call_tools", <<>>)) |-> MsgRecommended(x)],
                SoftTrajN, SoftTrajD, b.score, b.details)
  IN [g EXCEPT !.traj = c.score, !.details = c.details]

Min(a, b) == IF a <= b THEN a ELSE b

\* GatePairs with the approval turn itself included: range(0, min(k + 1, len)).
GatePairs_ThroughApprovalTurn(list, k, len) ==
  LET n == IF Min(k + 1, len) > 0 THEN Min(k + 1, len) ELSE 0
  IN Flatten([a \in DOMAIN list |-> [b \in 1..n |-> <<list[a], b - 1>>]])

\* The (tool, turn index) pairs the approval gate visits, in the order of
\* its two nested loops: for t in must_not_before: for i in range(0, min(k, len)).
GatePairs(list, k, len) ==
  LET n == IF Min(k, len) > 0 THEN Min(k, len) ELSE 0
  IN Flatten([a \in DOMAIN list |-> [b \in 1..n |-> <<list[a], b - 1>>]])

\* Approval gate: must_not_call_tools_before_approval.
ApprovalBefore(expect, turns, g) ==
  LET must_not_before == Get(expect, "must_not_call_tools_before_approval", <<>>)
      cbt == calls_by_turn(turns)
      Violates(p) == In(p[1], cbt[p[2] + 1])
      Msg(p) == <<"Approval gate violated: called before approval", p[1], p[2]>>
  IN IF HasKey(expect, "approval_turn") /\ must_not_before # <<>>
     THEN LET r == Loop(GatePairs(must_not_before, expect["approval_turn"], Len(cbt)),
                [x \in Range(GatePairs(must_not_before, expect["approval_turn"], Len(cbt))) |-> Violates(x)],
                [x \in Range(GatePairs(must_not_before, expect["approval_turn"], Len(cbt))) |-> Msg(x)], HardN, 1, g.traj, g.details)
          IN [g EXCEPT !.traj = r.score, !.details = r.details]
     ELSE g

\* list[i] with Python's indexing: i in -len..len-1, negative i counts from
\* the end.  IndexValid says whether list[i] raises IndexError.
IndexValid(list, i) == -Len(list) <= i /\ i < Len(list)
PyIndex(list, i) == IF i >= 0 THEN list[i + 1] ELSE list[Len(list) + i + 1]

\* ApprovalAfter looking for the required tools in all turns (all_calls)
\* instead of the turns from approval_turn on.
ApprovalAfter_AnyTurn(expect, turns, g) ==
  LET must_after == Get(expect, "must_call_tools_after_approval", <<>>)
  IN IF HasKey(expect, "approval_turn") /\ must_after # <<>>
     THEN LET Absent(t) == ~In(t, all_calls(turns))
              Msg(t) == <<"Missing required tool call after approval", t>>
              r == Loop(must_after,
                [x \in Range(must_after) |-> Absent(x)],
                [x \in Range(must_after) |-> Msg(x)], HardN, 1, g.traj, g.details)
          IN [g EXCEPT !.traj = r.score, !.details = r.details]
     ELSE g

\* must_call_tools_after_approval: after_calls is built from
\* calls_by_turn[i] for i in range(k, len).
ApprovalAfter(expect, turns, g) ==
  LET must_after == Get(expect, "must_call_tools_after_approval", <<>>)
      cbt == calls_by_turn(turns)
  IN IF HasKey(expect, "approval_turn") /\ must_after # <<>>
     THEN LET k == expect["approval_turn"]
              idx == [j \in 1..(IF Len(cbt) > k THEN Len(cbt) - k ELSE 0) |-> k + j - 1]
          IN IF \E j \in DOMAIN idx : ~IndexValid(cbt, idx[j])
             THEN [g EXCEPT !.err = "IndexError"]
             ELSE LET after_calls == Flatten([j \in DOMAIN idx |-> PyIndex(cbt, idx[j])])
                      Absent(t) == ~In(t, after_calls)
                      Msg(t) == <<"Missing required tool call after approval", t>>
                      r == Loop(must_after,
                [x \in Range(must_after) |-> Absent(x)],
                [x \in Range(must_after) |-> Msg(x)], HardN, 1, g.traj, g.details)
                  IN [g EXCEPT !.traj = r.score, !.details = r.details]
     ELSE g

\* must_include_any, should_include_any, must_include_any_after_approval.
ContentChecks(expect, turns, g) ==
  LET text == final_text(turns)
      Lacks(group) == ~_contains_any(text, group)
      MsgMust(group) == <<"Missing required content (any of)", group>>
      MsgShould(group) == <<"Missing recommended content (any of)", group>>
      MsgAfter(group) == <<"Missing required content after approval (any of)", group>>
      must_include_any_after == Get(expect, "must_include_any_after_approval", <<>>)
      a == Loop(Get(expect, "must_include_any", <<>>),
                [x \in Range(Get(expect, "must_include_any", <<>>)) |-> Lacks(x)],
                [x \in Range(Get(expect, "must_include_any", <<>>)) |-> MsgMust(x)],
                HardN, 1, g.content, g.details)
      b == Loop(Get(expect, "should_include_any", <<>>),
                [x \in Range(Get(expect, "should_include_any", <<>>)) |-> Lacks(x)],
                [x \in Range(Get(expect, "should_include_any", <<>>)) |-> MsgShould(x)],
                SoftN, SoftD, a.score, a.details)
      c == IF /\ HasKey(expect, "approval_turn")
              /\ must_include_any_after # <<>>
              /\ Len(turns) > expect["approval_turn"]
           THEN Loop(must_include_any_after,
                [x \in Range(must_include_any_after) |-> Lacks(x)],
                [x \in Range(must_include_any_after) |-> MsgAfter(x)], HardN, 1, b.score, b.details)
           ELSE b
  IN [g EXCEPT !.content = c.score, !.details = c.details]

\* bool(expect.get(key)) for a key holding a dict: absent, None and {} are falsy.
Truthy(expect, key) == HasKey(expect, key) /\ DOMAIN expect[key] # {}

\* must_ask_questions, should_ask_questions.
QuestionChecks(expect, turns, g) ==
  LET q_count == _count_questions(final_text(turns))
      a == IF /\ Truthy(expect, "must_ask_questions")
              /\ q_count < Get(expect["must_ask_questions"], "min_questions", 1)
           THEN [g EXCEPT !.content = Times(@, HardN, 1),
                          !.details = Append(@, <<"Expected at least question(s), got",
                               Get(expect["must_ask_questions"], "min_questions", None), q_count>>)]
           ELSE g
  IN IF /\ Truthy(expect, "should_ask_questions")
        /\ q_count < Get(expect["should_ask_questions"], "min_questions", 1)
     THEN [a EXCEPT !.content = Times(@, SoftN, SoftD),
                    !.details = Append(@, <<"Recommended at least question(s), got",
                         Get(expect["should_ask_questions"], "min_questions", None), q_count>>)]
     ELSE a

\* must_not_include_patterns.
SafetyCheck(expect, turns, g) ==
  LET must_not_patterns == Get(expect, "must_not_include_patterns", <<>>)
      m == _match_any_regex(final_text(turns), must_not_patterns)
  IN IF must_not_patterns = <<>> THEN g
     ELSE IF m = "re.error" THEN [g EXCEPT !.err = "re.error"]
     ELSE IF m = "match"
          THEN [g EXCEPT !.safety = Times(@, HardN, 1),
                         !.details = Append(@, <<"Safety violation: matched disallowed pattern">>)]
          ELSE g

\* StyleCheck with prefer_numbered_steps defaulting to True.
StyleCheck_DefaultOn(expect, turns, g) ==
  LET style_pref == Get(Get(expect, "style", EmptyDict), "prefer_numbered_steps", TRUE)
  IN IF style_pref /\ ~_has_numbered_steps(final_text(turns))
     THEN [g EXCEPT !.style = Times(@, SoftN, SoftD),
                    !.details = Append(@, <<"Style: preferred numbered steps but none detected">>)]
     ELSE g

\* style.prefer_numbered_steps.
StyleCheck(expect, turns, g) ==
  LET style_pref == Get(Get(expect, "style", EmptyDict), "prefer_numbered_steps", FALSE)
  IN IF style_pref /\ ~_has_numbered_steps(final_text(turns))
     THEN [g EXCEPT !.style = Times(@, SoftN, SoftD),
                    !.details = Append(@, <<"Style: preferred numbered steps but none detected">>)]
     ELSE g

\* The default weights, in tenths.
DefaultWeight(bucket) ==
  CASE bucket = "trajectory" -> 4
    [] bucket = "content"    -> 4
    [] bucket = "safety"     -> 1
    [] bucket = "style"      -> 1

\* float(weights.get(bucket, default)), in tenths.
Weight(weights, bucket) == Get(weights, bucket, DefaultWeight(bucket))

\* total = traj * w_t + content * w_c + safety * w_s + style * w_y
WeightedTotal(weights, g) ==
  Frac(  g.traj.n    * Weight(weights, "trajectory") * g.content.d * g.safety.d * g.style.d
       + g.content.n * Weight(weights, "content")    * g.traj.d    * g.safety.d * g.style.d
       + g.safety.n  * Weight(weights, "safety")     * g.traj.d    * g.content.d * g.style.d
       + g.style.n   * Weight(weights, "style")      * g.traj.d    * g.content.d * g.safety.d,
       g.traj.d * g.content.d * g.safety.d * g.style.d * WeightScale)

TotalStep(weights, g) == [g EXCEPT !.total = WeightedTotal(weights, g)]

\* One block of _grade_test, skipped once an exception has been raised.
GradeStep(step, test, turns, weights, g) ==
  LET expect == Get(test, "expect", EmptyDict)
  IN IF g.err # "ok" THEN g
     ELSE CASE step = "trajectory"      -> TrajectoryChecks(expect, turns, g)
            [] step = "approval_before" -> ApprovalBefore(expect, turns, g)
            [] step = "approval_after"  -> ApprovalAfter(expect, turns, g)
            [] step = "content"         -> ContentChecks(expect, turns, g)
            [] step = "questions"       -> QuestionChecks(expect, turns, g)
            [] step = "safety"          -> SafetyCheck(expect, turns, g)
            [] step = "style"           -> StyleCheck(expect, turns, g)
            [] step = "total"           -> TotalStep(weights, g)

\* The blocks of _grade_test in program order.
GradeSteps ==
  <<"trajectory", "approval_before", "approval_after", "content",
    "questions", "safety", "style", "total">>

\* _grade_test(test, turns, weights): the final grading state; err # "ok"
\* means the call raised and no GradeResult exists.
_grade_test(test, turns, weights) ==
  LET f[i \in 0..Len(GradeSteps)] ==
        IF i = 0 THEN GradeStart
        ELSE GradeStep(GradeSteps[i], test, turns, weights, f[i - 1])
  IN f[Len(GradeSteps)]

\* The GradeResult dict returned by _grade_test.
GradeResult(test, turns, g) ==
  [name |-> Get(test, "name", None),
   scores |-> [trajectory |-> g.traj, content |-> g.content, safety |-> g.safety,
               style |-> g.style, total |-> g.total],
   details |-> g.details,
   final_text |-> final_text(turns),
   tool_calls |-> all_calls(turns)]

(***************************************************************************)
(* JSON values (the events returned by r.json()), tagged by Python type.   *)
(* A dict is a function from its keys; KeyOrder fixes the order in which   *)
(* dict.values() yields them.                                              *)
(***************************************************************************)
JNull == [t |-> "NoneType"]
JStr(s) == [t |-> "str", s |-> s]
JNum(n) == [t |-> "int", n |-> n]
JList(l) == [t |-> "list", l |-> l]
JDict(d) == [t |-> "dict", d |-> d]

\* bool(v)
JTruthy(v) ==
  CASE v.t = "NoneType" -> FALSE
    [] v.t = "str"  -> v.s # ""
    [] v.t = "int"  -> v.n # 0
    [] v.t = "list" -> v.l # <<>>
    [] v.t = "dict" -> DOMAIN v.d # {}

\* a or b
JOr(a, b) == IF JTruthy(a) THEN a ELSE b

\* d.get(key) on a JSON dict: None when the key is absent.
JGet(v, key) == Get(v.d, key, JNull)

KeyOrder ==
  <<"content", "role", "parts", "text", "functionCall", "function_call",
    "functionResponse", "function_response", "name", "args", "response",
    "actions", "extra">>

\* list(d.values())
JValues(v) ==
  LET present == SelectSeq(KeyOrder, LAMBDA k : k \in DOMAIN v.d)
  IN [i \in DOMAIN present |-> v.d[present[i]]]

\* The parts list both scanners iterate for one event:
\*   content = ev.get("content") or {};  parts = content.get("parts") or []
\* "raise" when ev or a truthy content is not a dict (no .get), or when a
\* truthy parts is not a list (iterating a dict or a str yields str items,
\* which have no .get; an int is not iterable).
EventParts(ev) ==
  IF ev.t # "dict" THEN [err |-> "AttributeError", parts |-> <<>>]
  ELSE LET content == JOr(JGet(ev, "content"), JDict(EmptyDict))
       IN IF content.t # "dict" THEN [err |-> "AttributeError", parts |-> <<>>]
          ELSE LET parts == JOr(JGet(content, "parts"), JList(<<>>))
               IN IF parts.t = "list" THEN [err |-> "ok", parts |-> parts.l]
                  ELSE IF parts.t = "int" THEN [err |-> "TypeError", parts |-> <<>>]
                  ELSE [err |-> "AttributeError", parts |-> <<>>]

\* The parts of one event scanned for text: the first part that either is
\* no dict (p.get raises) or carries a non-blank str text decides.
PartsText(parts) ==
  LET f[i \in 0..Len(parts)] ==
        IF i = 0 THEN [err |-> "ok", found |-> FALSE, text |-> ""]
        ELSE IF f[i - 1].err # "ok" \/ f[i - 1].found THEN f[i - 1]
        ELSE IF parts[i].t # "dict" THEN [err |-> "AttributeError", found |-> FALSE, text |-> ""]
        ELSE LET txt == JGet(parts[i], "text")
             IN IF txt.t = "str" /\ StripNonEmpty(txt.s)
                THEN [err |-> "ok", found |-> TRUE, text |-> txt.s]
                ELSE f[i - 1]
  IN f[Len(parts)]

\* _last_assistant_text without reversed(): events scanned from first to last.
_last_assistant_text_Forward(events) ==
  LET n == Len(events)
      f[i \in 0..n] ==
        IF i = 0 THEN [err |-> "ok", found |-> FALSE, text |-> ""]
        ELSE IF f[i - 1].err # "ok" \/ f[i - 1].found THEN f[i - 1]
        ELSE LET ep == EventParts(events[i])
             IN IF ep.err # "ok" THEN [err |-> ep.err, found |-> FALSE, text |-> ""]
                ELSE PartsText(ep.parts)
  IN f[n]

\* _last_assistant_text(events): events scanned from last to first.
_last_assistant_text(events) ==
  LET n == Len(events)
      \* f[i]: the outcome after the last i events
      f[i \in 0..n] ==
        IF i = 0 THEN [err |-> "ok", found |-> FALSE, text |-> ""]
        ELSE IF f[i - 1].err # "ok" \/ f[i - 1].found THEN f[i - 1]
        ELSE LET ep == EventParts(events[n - i + 1])
             IN IF ep.err # "ok" THEN [err |-> ep.err, found |-> FALSE, text |-> ""]
                ELSE PartsText(ep.parts)
  IN f[n]

\* One part of the structured scan (lines 53-63): appends to calls/responses.
ScanPart(p, acc) ==
  IF p.t # "dict" THEN [acc EXCEPT !.err = "AttributeError"]
  ELSE LET fc == JOr(JGet(p, "functionCall"), JGet(p, "function_call"))
           fr == JOr(JGet(p, "functionResponse"), JGet(p, "function_response"))
           a == IF fc.t = "dict" /\ JGet(fc, "name").t = "str"
                THEN [acc EXCEPT !.calls = Append(@, JGet(fc, "name").s)]
                ELSE acc
       IN IF fr.t = "dict" /\ JGet(fr, "name").t = "str"
          THEN [a EXCEPT !.responses = Append(@, JGet(fr, "name").s)]
          ELSE a

ScanParts(parts, acc) ==
  LET f[i \in 0..Len(parts)] ==
        IF i = 0 THEN acc
        ELSE IF f[i - 1].err # "ok" THEN f[i - 1]
        ELSE ScanPart(parts[i], f[i - 1])
  IN f[Len(parts)]

\* The structured scan over all events, in forward order (lines 49-63).
StructuredScan(events) ==
  LET f[i \in 0..Len(events)] ==
        IF i = 0 THEN [err |-> "ok", calls |-> <<>>, responses |-> <<>>]
        ELSE IF f[i - 1].err # "ok" THEN f[i - 1]
        ELSE LET ep == EventParts(events[i])
             IN IF ep.err # "ok" THEN [f[i - 1] EXCEPT !.err = ep.err]
                ELSE ScanParts(ep.parts, f[i - 1])
  IN f[Len(events)]

\* _walk_json(obj): every dict of the nested structure, parents first.
RECURSIVE _walk_json(_)
_walk_json(obj) ==
  IF obj.t = "dict"
  THEN <<obj>> \o Flatten([i \in DOMAIN JValues(obj) |-> _walk_json(JValues(obj)[i])])
  ELSE IF obj.t = "list"
  THEN Flatten([i \in DOMAIN obj.l |-> _walk_json(obj.l[i])])
  ELSE <<>>

\* The fallback (lines 66-75): every dict with a "functionCall" /
\* "functionResponse" key holding a dict with a str name is appended.
FallbackScan(events, acc) ==
  LET ds == _walk_json(JList(events))
      f[i \in 0..Len(ds)] ==
        IF i = 0 THEN acc
        ELSE LET d == ds[i]
                 a == IF /\ HasKey(d.d, "functionCall")
                         /\ d.d["functionCall"].t = "dict"
                         /\ JGet(d.d["functionCall"], "name").t = "str"
                      THEN [f[i - 1] EXCEPT !.calls = Append(@, JGet(d.d["functionCall"], "name").s)]
                      ELSE f[i - 1]
             IN IF /\ HasKey(d.d, "functionResponse")
                   /\ d.d["functionResponse"].t = "dict"
                   /\ JGet(d.d["functionResponse"], "name").t = "str"
                THEN [a EXCEPT !.responses = Append(@, JGet(d.d["functionResponse"], "name").s)]
                ELSE a
  IN f[Len(ds)]

\* _extract_function_calls_and_responses(events)
_extract_function_calls_and_responses(events) ==
  LET s == StructuredScan(events)
  IN IF s.err # "ok" THEN s
     ELSE IF s.calls = <<>> \/ s.responses = <<>> THEN FallbackScan(events, s)
     ELSE s

\* The part of _run_turn after the response arrived (lines 233-243): the
\* TurnResult, or the exception an extractor raised.  raw_events is kept for
\* diagnostics only and is left out of the record.
TurnResult(text, events) ==
  LET at == _last_assistant_text(events)
      cr == IF at.err = "ok" THEN _extract_function_calls_and_responses(events)
            ELSE [err |-> at.err, calls |-> <<>>, responses |-> <<>>]
  IN [err |-> cr.err,
      tr |-> [user |-> text, assistant_text |-> at.text,
              tool_calls |-> cr.calls, tool_responses |-> cr.responses]]

(***************************************************************************)
(* State.                                                                  *)
(***************************************************************************)
VARIABLES
  \* main()
  tests,          \* spec["tests"]
  weights,        \* spec.get("weights", {...})
  pc,             \* where main is: "loop", "create_session", "turn_loop",
                  \* "run_turn", "done" (returned), "aborted" (an exception
                  \* left main), "off" (SpecGrade)
  t_idx,          \* position of the for loop over tests (1-based)
  session_id,     \* the loop's session_id
  turn_results,   \* the loop's turn_results
  results,        \* results
  passed,         \* passed
  report,         \* the summary written to report_path, None until written
  err,            \* the exception that left main, "ok" while none
  \* what the agent transport and the file system see of main()
  created,        \* the _create_session calls: [test, session]
  sent,           \* the /run requests: [test, session, turn, user]
  inflight,       \* requests issued and not yet answered
  graded,         \* the _grade_test calls: [test, turns]
  writes,         \* how often the report file was written
  \* _grade_test() on its own (SpecGrade)
  gtest, gturns, gweights,   \* its arguments
  g,              \* its grading state
  gpc,            \* the block to run next, "returned" or "raised"
  \* the event extractor on its own (SpecExtract)
  xevents,        \* events = r.json()
  xtext,          \* assistant_text, None until _last_assistant_text returned
  xcalls,         \* calls
  xresponses,     \* responses
  xerr,           \* the exception an extractor raised, "ok" while none
  xpc             \* the scan to run next: "text", "scan", "fallback";
                  \* "returned", "raised"; "off" (Spec, SpecGrade)

mainvars ==
  <<tests, weights, pc, t_idx, session_id, turn_results, results, passed,
    report, err, created, sent, inflight, graded, writes>>
gradevars == <<gtest, gturns, gweights, g, gpc>>
extractvars == <<xevents, xtext, xcalls, xresponses, xerr, xpc>>
vars == <<mainvars, gradevars, extractvars>>

(***************************************************************************)
(* Inputs of the run: the evalset and what the agent may answer.           *)
(***************************************************************************)
\* The scenarios an evalset of the model is made of.
Scenarios ==
  { "name" :> "empty",
    ("name" :> "kb") @@ ("turns" :> <<[user |-> "u1"], [user |-> "u2"]>>)
       @@ ("expect" :> ("must_call_tools" :> <<"kb_search">>)),
    ("name" :> "safety") @@ ("turns" :> <<[user |-> "u1"]>>)
       @@ ("expect" :> (("must_not_include_patterns" :> <<"b", "(">>)
             @@ ("style" :> ("prefer_numbered_steps" :> TRUE)))) }

\* spec["weights"], in tenths; EmptyDict stands for the default mapping
\* (every bucket then takes its default).
MainWeights ==
  { EmptyDict,
    ("trajectory" :> 1) @@ ("content" :> 2) @@ ("safety" :> 4) @@ ("style" :> 1) }

\* f"s_{uuid.uuid4().hex[:8]}": eight random hexadecimal digits.
SessionIds == {"s_0000000a", "s_0000000b"}

TextPart(s) == JDict("text" :> JStr(s))
CallPart(name) == JDict("functionCall" :> JDict(("name" :> JStr(name)) @@ ("args" :> JDict(EmptyDict))))
ResponsePart(name) == JDict("functionResponse" :> JDict(("name" :> JStr(name)) @@ ("response" :> JDict(EmptyDict))))
Event(parts) == JDict(("content" :> JDict(("role" :> JStr("model")) @@ ("parts" :> JList(parts)))))

\* The event lists the agent answers a turn with.
Responses ==
  << <<Event(<<TextPart("a?")>>)>>,
     <<Event(<<CallPart("kb_search")>>), Event(<<ResponsePart("kb_search")>>),
       Event(<<TextPart("Ab")>>)>>,
     <<JNull>> >>

(***************************************************************************)
(* main()                                                                  *)
(***************************************************************************)
threshold == Frac(ThresholdN, WeightScale)

\* t.get("turns", [])
Script(t) == Get(t, "turns", <<>>)

GradeOff ==
  /\ gtest = EmptyDict /\ gturns = <<>> /\ gweights = EmptyDict
  /\ g = GradeStart /\ gpc = "off"

ExtractOff ==
  /\ xevents = <<>> /\ xtext = None /\ xcalls = <<>> /\ xresponses = <<>>
  /\ xerr = "ok" /\ xpc = "off"

Init ==
  /\ tests \in SeqsUpTo(Scenarios, MaxTests)
  /\ weights \in MainWeights
  /\ pc = "loop"
  /\ t_idx = 1
  /\ session_id = None
  /\ turn_results = <<>>
  /\ results = <<>>
  /\ passed = 0
  /\ report = EmptyDict
  /\ err = "ok"
  /\ created = <<>>
  /\ sent = <<>>
  /\ inflight = 0
  /\ graded = <<>>
  /\ writes = 0
  /\ GradeOff
  /\ ExtractOff

\* An exception leaves main: the process ends with a traceback.
Abort(e) ==
  /\ pc' = "aborted"
  /\ err' = e
  /\ inflight' = 0

\* Lines 260-263: the loop takes the next scenario, draws its session id and
\* issues the request of _create_session.
StartScenario ==
  /\ pc = "loop"
  /\ t_idx <= Len(tests)
  /\ \E sid \in SessionIds :
       /\ session_id' = sid
       /\ created' = Append(created, [test |-> t_idx, session |-> sid])
  /\ inflight' = inflight + 1
  /\ pc' = "create_session"
  /\ UNCHANGED <<tests, weights, t_idx, turn_results, results, passed, report,
                 err, sent, graded, writes, gradevars, extractvars>>

\* _create_session returns; line 265.
CreateSessionOk ==
  /\ pc = "create_session"
  /\ inflight' = inflight - 1
  /\ turn_results' = <<>>
  /\ pc' = "turn_loop"
  /\ UNCHANGED <<tests, weights, t_idx, session_id, results, passed, report,
                 err, created, sent, graded, writes, gradevars, extractvars>>

\* requests.post or raise_for_status raises in _create_session (lines 219-220).
CreateSessionFails ==
  /\ pc = "create_session"
  /\ Abort("requests")
  /\ UNCHANGED <<tests, weights, t_idx, session_id, turn_results, results,
                 passed, report, created, sent, graded, writes, gradevars, extractvars>>

\* Lines 266-267 and 224-231: the next scripted turn is posted to /run.
SendTurn ==
  /\ pc = "turn_loop"
  /\ Len(turn_results) < Len(Script(tests[t_idx]))
  /\ sent' = Append(sent, [test |-> t_idx, session |-> session_id,
                           turn |-> Len(turn_results) + 1,
                           user |-> Script(tests[t_idx])[Len(turn_results) + 1].user])
  /\ inflight' = inflight + 1
  /\ pc' = "run_turn"
  /\ UNCHANGED <<tests, weights, t_idx, session_id, turn_results, results,
                 passed, report, err, created, graded, writes, gradevars, extractvars>>

\* Lines 232-243 and 268: the events arrive, are extracted and appended.
RecvTurn ==
  /\ pc = "run_turn"
  /\ \E r \in DOMAIN Responses :
       LET res == TurnResult(sent[Len(sent)].user, Responses[r])
       IN /\ res.err = "ok"
          /\ turn_results' = Append(turn_results, res.tr)
  /\ inflight' = inflight - 1
  /\ pc' = "turn_loop"
  /\ UNCHANGED <<tests, weights, t_idx, session_id, results, passed, report,
                 err, created, sent, graded, writes, gradevars, extractvars>>

\* Lines 235-236: the events arrive and an extractor raises on their shape.
RecvTurnRaises ==
  /\ pc = "run_turn"
  /\ \E r \in DOMAIN Responses :
       LET res == TurnResult(sent[Len(sent)].user, Responses[r])
       IN /\ res.err # "ok"
          /\ Abort(res.err)
  /\ UNCHANGED <<tests, weights, t_idx, session_id, turn_results, results,
                 passed, report, created, sent, graded, writes, gradevars, extractvars>>

\* requests.post or raise_for_status raises in _run_turn (lines 231-232).
RunTurnFails ==
  /\ pc = "run_turn"
  /\ Abort("requests")
  /\ UNCHANGED <<tests, weights, t_idx, session_id, turn_results, results,
                 passed, report, created, sent, graded, writes, gradevars, extractvars>>

\* Passes with a strict comparison (total > threshold).
Passes_Strict(total) == ~FracLeq(total, threshold)

\* if graded["scores"]["total"] >= threshold
Passes(total) == FracLeq(threshold, total)

\* Grade run from inside the turn loop: the scenario is graded as soon as
\* one turn was answered instead of after the last one.
Grade_InsideTurnLoop ==
  /\ pc = "turn_loop"
  /\ Len(turn_results) >= Min(1, Len(Script(tests[t_idx])))
  /\ LET r == _grade_test(tests[t_idx], turn_results, weights)
     IN /\ r.err = "ok"
        /\ results' = Append(results, GradeResult(tests[t_idx], turn_results, r))
        /\ passed' = IF FracLeq(threshold, r.total) THEN passed + 1 ELSE passed
  /\ graded' = Append(graded, [test |-> t_idx, turns |-> Len(turn_results)])
  /\ t_idx' = t_idx + 1
  /\ pc' = "loop"
  /\ UNCHANGED <<tests, weights, session_id, turn_results, report, err,
                 created, sent, inflight, writes, gradevars, extractvars>>

\* Lines 270-279: all turns done; the scenario is graded and counted.
Grade ==
  /\ pc = "turn_loop"
  /\ Len(turn_results) = Len(Script(tests[t_idx]))
  /\ LET r == _grade_test(tests[t_idx], turn_results, weights)
     IN /\ r.err = "ok"
        /\ results' = Append(results, GradeResult(tests[t_idx], turn_results, r))
        /\ passed' = IF Passes(r.total) THEN passed + 1 ELSE passed
  /\ graded' = Append(graded, [test |-> t_idx, turns |-> Len(turn_results)])
  /\ t_idx' = t_idx + 1
  /\ pc' = "loop"
  /\ UNCHANGED <<tests, weights, session_id, turn_results, report, err,
                 created, sent, inflight, writes, gradevars, extractvars>>

\* Line 270: _grade_test raises (re.error at line 95, IndexError at line 145).
GradeRaises ==
  /\ pc = "turn_loop"
  /\ Len(turn_results) = Len(Script(tests[t_idx]))
  /\ LET r == _grade_test(tests[t_idx], turn_results, weights)
     IN /\ r.err # "ok"
        /\ Abort(r.err)
  /\ graded' = Append(graded, [test |-> t_idx, turns |-> Len(turn_results)])
  /\ UNCHANGED <<tests, weights, t_idx, session_id, turn_results, results,
                 passed, report, created, sent, writes, gradevars, extractvars>>

\* max(1, len(results))
Max(a, b) == IF a >= b THEN a ELSE b

\* Lines 281-289: the summary dict.
Summary ==
  [threshold |-> threshold,
   passed |-> passed,
   total |-> Len(results),
   pass_rate |-> Frac(passed, Max(1, Len(results))),
   results |-> results]

\* Lines 281-296: the loop is over; the report is written and main returns.
WriteReport ==
  /\ pc = "loop"
  /\ t_idx > Len(tests)
  /\ report' = Summary
  /\ writes' = writes + 1
  /\ pc' = "done"
  /\ UNCHANGED <<tests, weights, t_idx, session_id, turn_results, results,
                 passed, err, created, sent, inflight, graded, gradevars, extractvars>>

Next ==
  \/ StartScenario
  \/ CreateSessionOk
  \/ CreateSessionFails
  \/ SendTurn
  \/ RecvTurn
  \/ RecvTurnRaises
  \/ RunTurnFails
  \/ Grade
  \/ GradeRaises
  \/ WriteReport

Spec == Init /\ [][Next]_vars

(***************************************************************************)
(* _grade_test() on its own: the inputs it is checked on.                  *)
(***************************************************************************)
\* A key that is absent or holds one of Vals.
Opt(key, Vals) == {EmptyDict} \cup {key :> v : v \in Vals}

\* tool_calls of one TurnResult.
CallLists == {<<>>, <<"kb_search">>, <<"create_ticket">>, <<"kb_search", "create_ticket">>}
\* assistant_text of one TurnResult.
Texts == {"", "Ab", "a?", "B??", "1. a"}

Turn(calls, text) ==
  [user |-> "u", assistant_text |-> text, tool_calls |-> calls, tool_responses |-> <<>>]

CallTurns == {Turn(c, "") : c \in CallLists}
TextTurns == {Turn(<<>>, t) : t \in Texts}
AnyTurns == {Turn(c, t) : c \in CallLists, t \in Texts}
MixedTurns == {Turn(<<"kb_search">>, "1. a"), Turn(<<>>, "a?"), Turn(<<"create_ticket">>, "Ab")}

\* Values of the expectation's keys.
ToolLists == {<<"kb_search">>, <<"create_ticket">>, <<"kb_search", "create_ticket">>}
ShouldLists == SeqsUpTo(Tools, MaxShould) \ {<<>>}
ApprovalTurns == (-1)..(MaxTurns + 1)
GroupLists == { << <<"a">> >>, << <<"a", "B">> >>, << <<"a">>, <<"b">> >>, << <<>> >> }
QuestionDicts == {EmptyDict, "min_questions" :> 1, "min_questions" :> 2, "strict" :> 1}
PatternLists == {<<"a">>, <<"(">>, <<"b", "(">>}
StyleDicts == {EmptyDict, "prefer_numbered_steps" :> TRUE}
\* weights, in tenths: the default, one key overridden (sum 1.1), all 1.0,
\* a sum of 0.6, a negative weight.
WeightMaps ==
  { EmptyDict,
    "trajectory" :> 5,
    ("trajectory" :> 10) @@ ("content" :> 10) @@ ("safety" :> 10) @@ ("style" :> 10),
    ("trajectory" :> 2) @@ ("content" :> 2),
    "safety" :> (-1) }

\* The trajectory keys without the approval gate.
TrajExpects ==
  { a @@ b @@ c : a \in Opt("must_call_tools", ToolLists),
                  b \in Opt("must_not_call_tools", ToolLists),
                  c \in Opt("should_call_tools", ShouldLists) }
\* The approval gate.
GateExpects ==
  { a @@ b @@ c @@ d :
      a \in Opt("approval_turn", ApprovalTurns),
      b \in Opt("must_not_call_tools_before_approval", ToolLists),
      c \in Opt("must_call_tools_after_approval", ToolLists),
      d \in Opt("should_call_tools", {<<"create_ticket">>}) }
\* The keyword groups.
ContentExpects ==
  { a @@ b @@ c @@ d :
      a \in Opt("must_include_any", GroupLists),
      b \in Opt("should_include_any", {<< <<"b">> >>, << <<"b">>, <<"?">> >>}),
      c \in Opt("must_include_any_after_approval", {<< <<"a">> >>}),
      d \in Opt("approval_turn", 0..MaxTurns) }
\* The question counts.
QuestionExpects ==
  { a @@ b @@ c :
      a \in Opt("must_ask_questions", QuestionDicts),
      b \in Opt("should_ask_questions", QuestionDicts),
      c \in Opt("should_include_any", {<< <<"b">> >>}) }
\* Safety, style and a little of the other buckets, for the total.
MixedExpects ==
  { a @@ b @@ c @@ d @@ e :
      a \in Opt("must_not_include_patterns", PatternLists),
      b \in Opt("style", StyleDicts),
      c \in Opt("should_call_tools", {<<"create_ticket">>}),
      d \in Opt("must_call_tools", {<<"kb_search">>}),
      e \in Opt("should_ask_questions", {"min_questions" :> 1}) }

WithExpect(e) == ("name" :> "t") @@ ("expect" :> e)

\* The (test, turns, weights) triples _grade_test is checked on.
GradeInputs ==
  ({WithExpect(e) : e \in TrajExpects \cup GateExpects}
      \X SeqsUpTo(CallTurns, MaxTurns) \X {EmptyDict})
  \cup ({WithExpect(e) : e \in ContentExpects \cup QuestionExpects}
      \X SeqsUpTo(TextTurns, MaxTurns) \X {EmptyDict})
  \cup ({WithExpect(e) : e \in MixedExpects}
      \X SeqsUpTo(MixedTurns, MaxTurns) \X WeightMaps)
  \cup ({"name" :> "t", WithExpect(EmptyDict)}
      \X SeqsUpTo(AnyTurns, MaxTurns) \X {EmptyDict})

MainOff ==
  /\ tests = <<>> /\ weights = EmptyDict /\ pc = "off" /\ t_idx = 1
  /\ session_id = None /\ turn_results = <<>> /\ results = <<>> /\ passed = 0
  /\ report = EmptyDict /\ err = "ok" /\ created = <<>> /\ sent = <<>>
  /\ inflight = 0 /\ graded = <<>> /\ writes = 0

InitGrade ==
  /\ \E in \in GradeInputs :
       /\ gtest = in[1]
       /\ gturns = in[2]
       /\ gweights = in[3]
  /\ g = GradeStart
  /\ gpc = "trajectory"
  /\ MainOff
  /\ ExtractOff

\* One block of _grade_test runs; an exception ends the call.
Block(step, next) ==
  /\ g' = GradeStep(step, gtest, gturns, gweights, g)
  /\ gpc' = IF g'.err # "ok" THEN "raised" ELSE next
  /\ UNCHANGED <<gtest, gturns, gweights, mainvars, extractvars>>

\* Lines 112-129.
DoTrajectory ==
  /\ gpc = "trajectory"
  /\ Block("trajectory", "approval_before")
\* Lines 131-139.
DoApprovalBefore ==
  /\ gpc = "approval_before"
  /\ Block("approval_before", "approval_after")
\* Lines 141-149.
DoApprovalAfter ==
  /\ gpc = "approval_after"
  /\ Block("approval_after", "content")
\* Lines 151-170.
DoContent ==
  /\ gpc = "content"
  /\ Block("content", "questions")
\* Lines 172-185.
DoQuestions ==
  /\ gpc = "questions"
  /\ Block("questions", "safety")
\* Lines 187-191.
DoSafety ==
  /\ gpc = "safety"
  /\ Block("safety", "style")
\* Lines 193-197.
DoStyle ==
  /\ gpc = "style"
  /\ Block("style", "total")
\* Lines 199-214.
DoTotal ==
  /\ gpc = "total"
  /\ Block("total", "returned")

NextGrade ==
  \/ DoTrajectory
  \/ DoApprovalBefore
  \/ DoApprovalAfter
  \/ DoContent
  \/ DoQuestions
  \/ DoSafety
  \/ DoStyle
  \/ DoTotal

SpecGrade == InitGrade /\ [][NextGrade]_vars

(***************************************************************************)
(* The event extractor on its own: the event lists it is checked on and    *)
(* the three scans _run_turn() makes of them (lines 239-240).              *)
(***************************************************************************)
\* A tool-invocation part under the snake_case key line 53 also accepts.
SnakeCallPart(name) == JDict("function_call" :> JDict(("name" :> JStr(name)) @@ ("args" :> JDict(EmptyDict))))

\* The parts lists of the events of the standard shape: text parts (empty,
\* blank and not), tool invocations and tool responses, alone and in pairs.
StandardPartLists ==
  { <<>>,
    <<TextPart("Ab")>>, <<TextPart("")>>, <<TextPart(" ")>>,
    <<TextPart(" "), TextPart("Ab")>>, <<TextPart("a?"), TextPart("Ab")>>,
    <<CallPart("kb_search")>>, <<CallPart("kb_search"), CallPart("kb_search")>>,
    <<CallPart("create_ticket"), CallPart("kb_search")>>,
    <<ResponsePart("kb_search")>>,
    <<ResponsePart("kb_search"), ResponsePart("create_ticket")>>,
    <<CallPart("kb_search"), ResponsePart("kb_search")>>,
    <<CallPart("get_ticket"), TextPart("Ab")>>,
    <<SnakeCallPart("kb_search")>> }

StandardEvents == {Event(parts) : parts \in StandardPartLists}

\* Events with an absent or empty field, or a descriptor without a str name.
SparseEvents ==
  { JDict(EmptyDict),
    JDict("content" :> JNull),
    JDict("content" :> JDict("role" :> JStr("model"))),
    Event(<<JDict(EmptyDict)>>),
    Event(<<JDict("text" :> JNum(1))>>),
    Event(<<JDict("functionCall" :> JDict("args" :> JDict(EmptyDict)))>>),
    Event(<<JDict("functionResponse" :> JDict("name" :> JNum(1)))>>) }

\* Events with a field of another type than the standard shape has.
MistypedEvents ==
  { JDict("content" :> JStr("a")),
    JDict("content" :> JDict("parts" :> JStr("a"))),
    JDict("content" :> JDict("parts" :> JNum(1))),
    JDict("content" :> JDict("parts" :> TextPart("Ab"))),
    Event(<<JStr("a")>>),
    Event(<<TextPart("Ab"), JNull>>) }

\* Events that carry a descriptor outside content.parts.
NestedEvents ==
  { JDict("actions" :> CallPart("update_ticket_status")),
    JDict(("content" :> JDict("parts" :> JList(<<TextPart("a?")>>)))
          @@ ("extra" :> JList(<<ResponsePart("create_ticket")>>))) }

\* The events of another shape, with one standard event to mix them with.
OddEvents ==
  SparseEvents \cup MistypedEvents \cup NestedEvents \cup {Event(<<TextPart("Ab")>>)}

\* The event lists the extractor is run on: standard events only, or events
\* of the other shapes.
ExtractInputs ==
  SeqsUpTo(StandardEvents, MaxEvents) \cup SeqsUpTo(OddEvents, MaxEvents)

InitExtract ==
  /\ xevents \in ExtractInputs
  /\ xtext = None
  /\ xcalls = <<>>
  /\ xresponses = <<>>
  /\ xerr = "ok"
  /\ xpc = "text"
  /\ MainOff
  /\ GradeOff

\* Line 239: assistant_text = _last_assistant_text(events).
XLastAssistantText ==
  /\ xpc = "text"
  /\ LET r == _last_assistant_text(xevents)
     IN IF r.err = "ok"
        THEN /\ xtext' = r.text
             /\ xpc' = "scan"
             /\ UNCHANGED xerr
        ELSE /\ xerr' = r.err
             /\ xpc' = "raised"
             /\ UNCHANGED xtext
  /\ UNCHANGED <<xevents, xcalls, xresponses, mainvars, gradevars>>

\* Lines 44-63 and the test of line 66: the scan of content.parts.
XStructuredScan ==
  /\ xpc = "scan"
  /\ LET r == StructuredScan(xevents)
     IN IF r.err = "ok"
        THEN /\ xcalls' = r.calls
             /\ xresponses' = r.responses
             /\ xpc' = IF r.calls = <<>> \/ r.responses = <<>>
                       THEN "fallback" ELSE "returned"
             /\ UNCHANGED xerr
        ELSE /\ xerr' = r.err
             /\ xpc' = "raised"
             /\ UNCHANGED <<xcalls, xresponses>>
  /\ UNCHANGED <<xevents, xtext, mainvars, gradevars>>

\* Lines 67-77: the walk over the whole JSON, then the return.
XFallback ==
  /\ xpc = "fallback"
  /\ LET r == FallbackScan(xevents, [err |-> "ok", calls |-> xcalls, responses |-> xresponses])
     IN /\ xcalls' = r.calls
        /\ xresponses' = r.responses
  /\ xpc' = "returned"
  /\ UNCHANGED <<xevents, xtext, xerr, mainvars, gradevars>>

NextExtract ==
  \/ XLastAssistantText
  \/ XStructuredScan
  \/ XFallback

SpecExtract == InitExtract /\ [][NextExtract]_vars

(***************************************************************************)
(* Properties of main(), checked under Spec.                               *)
(***************************************************************************)
\* main has stopped: it returned or an exception left it.
Stopped == pc \in {"done", "aborted"}

\* Scenario j was graded.
WasGraded(j) == \E k \in DOMAIN graded : graded[k].test = j

\* The /run requests of scenario j, in the order they were sent.
SentOf(j) == SelectSeq(sent, LAMBDA m : m.test = j)

\* C1: a transport failure (connection error, non-success status, timeout)
\* during the session creation or a turn of scenario i leaves scenario i
\* ungraded but does not abort the run: once main has stopped, every later
\* scenario has been given a session, driven through all its turns and
\* graded, and the report has been written.
C1_TransportFailureDoesNotAbortRun ==
  (Stopped /\ err = "requests") =>
     /\ ~WasGraded(t_idx)
     /\ \A j \in (t_idx + 1)..Len(tests) :
          /\ \E c \in DOMAIN created : created[c].test = j
          /\ Len(SentOf(j)) = Len(Script(tests[j]))
          /\ WasGraded(j)
     /\ writes = 1

\* C7: a must_not_include_patterns entry that is no valid regular expression
\* is reported when the scenario spec is loaded, before any session is
\* created or any turn is sent; it is never first detected while a scenario
\* is being graded.
C7_BadRegexReportedAtLoad ==
  err = "re.error" => (created = <<>> /\ sent = <<>> /\ graded = <<>>)

\* C8: each scenario gets its own newly created session and no session id is
\* used for two scenarios: the session ids passed to _create_session for two
\* distinct scenarios differ, and every turn of a scenario is sent with
\* exactly the session id created for that scenario.
C8_SessionNeverReused ==
  /\ \A a, b \in DOMAIN created :
       created[a].test # created[b].test => created[a].session # created[b].session
  /\ \A m \in DOMAIN sent :
       \E c \in DOMAIN created :
          /\ created[c].test = sent[m].test
          /\ created[c].session = sent[m].session
  /\ \A a, b \in DOMAIN created : created[a].test = created[b].test => a = b

\* C9: within a scenario the turns are driven strictly in script order with
\* at most one request outstanding: the session is created before the first
\* turn, the request of turn i+1 is issued only after the response of turn i
\* was received, each scripted turn causes exactly one /run call (no retry),
\* the TurnResult at position i belongs to scripted turn i, and the grader is
\* invoked exactly once per scenario, only after all of its turns completed.
C9_TurnsInScriptOrder ==
  /\ inflight \in {0, 1}
  /\ inflight = 1 <=> pc \in {"create_session", "run_turn"}
  \* every request belongs to a scenario whose session was created, and the
  \* requests of a scenario are its scripted turns 1, 2, ... once each
  /\ \A j \in 1..Len(tests) :
       LET reqs == SentOf(j)
       IN /\ reqs # <<>> => \E c \in DOMAIN created : created[c].test = j
          /\ Len(reqs) <= Len(Script(tests[j]))
          /\ \A i \in DOMAIN reqs :
               /\ reqs[i].turn = i
               /\ reqs[i].user = Script(tests[j])[i].user
  \* requests go out scenario by scenario
  /\ \A a, b \in DOMAIN sent : a < b => sent[a].test <= sent[b].test
  \* the next request waits for the response of the one before
  /\ pc = "turn_loop" => Len(SentOf(t_idx)) = Len(turn_results)
  /\ pc = "run_turn" => Len(SentOf(t_idx)) = Len(turn_results) + 1
  /\ pc \in {"turn_loop", "run_turn"} =>
       \A i \in DOMAIN turn_results :
          turn_results[i].user = Script(tests[t_idx])[i].user
  \* the grader runs once per scenario, on all of its turns
  /\ \A a, b \in DOMAIN graded : graded[a].test = graded[b].test => a = b
  /\ \A k \in DOMAIN graded :
       /\ graded[k].turns = Len(Script(tests[graded[k].test]))
       /\ Len(SentOf(graded[k].test)) = graded[k].turns
  /\ pc = "done" => \A j \in 1..Len(tests) : WasGraded(j)

\* A run with a two-turn scenario graded after both turns were answered.
W9_TwoTurnScenarioGraded ==
  /\ pc = "done"
  /\ \E k \in DOMAIN graded : graded[k].turns = 2
  /\ Len(sent) >= 3

\* The number of GradeResults whose total is at least 0.70.
PassCount(rs) ==
  Cardinality({i \in DOMAIN rs : 10 * rs[i].scores.total.n >= 7 * rs[i].scores.total.d})

\* C10: a scenario counts as passed iff its total is >= 0.70; when the report
\* is written, total is the number of graded scenarios, passed the number of
\* GradeResults with total >= threshold (0 <= passed <= total), pass_rate is
\* passed/total (0 when there are no scenarios), results lists the
\* GradeResults in scenario order, and the report is written once, after the
\* last scenario.
C10_PassAccounting ==
  /\ passed = PassCount(results)
  /\ writes <= 1
  /\ writes = 1 <=> pc = "done"
  /\ pc = "done" =>
       /\ Len(results) = Len(tests)
       /\ Len(graded) = Len(tests)
       /\ report.total = Len(graded)
       /\ report.passed = PassCount(report.results)
       /\ 0 <= report.passed /\ report.passed <= report.total
       /\ report.pass_rate.n * report.total = report.passed * report.pass_rate.d
       /\ report.total = 0 => report.pass_rate.n = 0
       /\ Len(report.results) = Len(tests)
       /\ \A i \in DOMAIN report.results :
            /\ report.results[i].name = tests[i]["name"]
            /\ graded[i].test = i

\* A written report with one passed and one failed scenario, the passed one
\* with a total of exactly 0.70.
W10_ReportWithPassAndFail ==
  /\ pc = "done"
  /\ report.total = 2
  /\ report.passed = 1
  /\ \E i \in DOMAIN results :
       10 * results[i].scores.total.n = 7 * results[i].scores.total.d

(***************************************************************************)
(* Properties of _grade_test(), checked under SpecGrade.                   *)
(***************************************************************************)
gexpect == Get(gtest, "expect", EmptyDict)

\* Tool t occurs in the tool_calls of the turn with (0-based) index i.
CalledInTurn(t, i) == \E c \in DOMAIN gturns[i + 1].tool_calls : gturns[i + 1].tool_calls[c] = t
TurnIndexes == 0..(Len(gturns) - 1)

GateSet ==
  /\ HasKey(gexpect, "approval_turn")
  /\ Get(gexpect, "must_not_call_tools_before_approval", <<>>) # <<>>

\* The (tool, turn) pairs that break the gate: a listed tool called in a
\* turn with index below approval_turn.
GateViolations ==
  {p \in Range(gexpect["must_not_call_tools_before_approval"]) \X TurnIndexes :
      p[2] < gexpect["approval_turn"] /\ CalledInTurn(p[1], p[2])}

\* C2: approval gate, for approval_turn = k and a non-empty
\* must_not_call_tools_before_approval: trajectory is exactly 0.0 whenever a
\* listed tool appears in the tool_calls of a turn with index < k, and a
\* detail naming that turn index is appended; if every call of every listed
\* tool is in turns with index >= k, the check leaves trajectory unchanged
\* and appends no detail; for every turn sequence and every k.
C2_ApprovalGate ==
  [][ GateSet =>
        /\ (gpc = "approval_before" /\ GateViolations # {}) =>
              /\ g'.traj = Zero
              /\ \A p \in GateViolations :
                   \E i \in (Len(g.details) + 1)..Len(g'.details) :
                      /\ Len(g'.details[i]) = 3
                      /\ g'.details[i][2] = p[1]
                      /\ g'.details[i][3] = p[2]
        /\ (gpc = "approval_before" /\ GateViolations = {}) =>
              /\ g'.traj = g.traj
              /\ Len(g'.details) = Len(g.details)
        /\ (gpc' = "returned" /\ GateViolations # {}) => g'.traj = Zero
    ]_vars

\* A graded transcript in which a gated tool fired before the approval turn.
W2_GateViolated ==
  /\ gpc = "returned"
  /\ GateSet
  /\ GateViolations # {}
  /\ g.traj = Zero

AfterSet ==
  /\ HasKey(gexpect, "approval_turn")
  /\ Get(gexpect, "must_call_tools_after_approval", <<>>) # <<>>

\* The required tools that occur in no turn with index >= approval_turn.
MissingAfter ==
  {t \in Range(gexpect["must_call_tools_after_approval"]) :
      ~\E i \in TurnIndexes : i >= gexpect["approval_turn"] /\ CalledInTurn(t, i)}

\* C3: when approval_turn = k is set and must_call_tools_after_approval is
\* non-empty, this check zeroes trajectory if and only if some required tool
\* occurs in the tool_calls of no turn with index >= k; a call only in turns
\* with index < k does not count, and with k at or past the number of turns
\* every required tool is missing.  (Stated of the calls that return.)
C3_MustCallAfterApproval ==
  [][ (AfterSet /\ g'.err = "ok") =>
        /\ (gpc = "approval_after" /\ MissingAfter # {}) => g'.traj = Zero
        /\ (gpc = "approval_after" /\ MissingAfter = {}) =>
              /\ g'.traj = g.traj
              /\ Len(g'.details) = Len(g.details)
        /\ (gpc = "approval_after" /\ gexpect["approval_turn"] >= Len(gturns)) =>
              /\ g'.traj = Zero
              /\ Len(g'.details) = Len(g.details) + Len(gexpect["must_call_tools_after_approval"])
        /\ (gpc' = "returned" /\ MissingAfter # {}) => g'.traj = Zero
    ]_vars

\* A graded transcript whose required tool was called, but only before the
\* approval turn.
W3_CalledOnlyBeforeApproval ==
  /\ gpc = "returned"
  /\ AfterSet
  /\ gexpect["approval_turn"] = 1
  /\ Len(gturns) = 2
  /\ \E t \in MissingAfter : CalledInTurn(t, 0)
  /\ g.traj = Zero

\* C4: for a scenario whose expectation is empty (no keys, or the expect key
\* absent) _grade_test returns trajectory = content = safety = style = 1.0,
\* no details and, under the default weights, total = 1.0, for every
\* sequence of turns (the empty one too), whatever their texts and calls.
C4_EmptyExpectationIsPerfect ==
  DOMAIN gexpect = {} =>
     /\ gpc # "raised"
     /\ gpc = "returned" =>
          /\ g.traj = One /\ g.content = One /\ g.safety = One /\ g.style = One
          /\ g.details = <<>>
          /\ DOMAIN gweights = {} => g.total.n = g.total.d

\* An empty expectation graded on two turns with tool calls and text.
W4_EmptyExpectationGraded ==
  /\ gpc = "returned"
  /\ ~HasKey(gtest, "expect")
  /\ Len(gturns) = 2
  /\ gturns[1].tool_calls # <<>>
  /\ gturns[2].assistant_text = "B??"
  /\ g.total.n = g.total.d

\* Some tool of the transcript / some keyword of the final text.
CalledAnywhere(t) == \E i \in TurnIndexes : CalledInTurn(t, i)
FinalHasAny(group) ==
  \E k \in DOMAIN group :
     IsSubstring(Lower(Chars(group[k])), Lower(Chars(final_text(gturns))))
Questions == _count_questions(final_text(gturns))

\* The hard checks the claim lists.
TrajHardListed ==
  \/ \E t \in Range(Get(gexpect, "must_call_tools", <<>>)) : ~CalledAnywhere(t)
  \/ \E t \in Range(Get(gexpect, "must_not_call_tools", <<>>)) : CalledAnywhere(t)
ContentHardListed ==
  \/ \E grp \in Range(Get(gexpect, "must_include_any", <<>>)) : ~FinalHasAny(grp)
  \/ /\ Truthy(gexpect, "must_ask_questions")
     /\ Questions < Get(gexpect["must_ask_questions"], "min_questions", 1)
\* All hard checks of a bucket: the listed ones and those of the approval turn.
TrajHard ==
  \/ TrajHardListed
  \/ GateSet /\ GateViolations # {}
  \/ AfterSet /\ MissingAfter # {}
ContentHard ==
  \/ ContentHardListed
  \/ /\ HasKey(gexpect, "approval_turn")
     /\ Len(gturns) > gexpect["approval_turn"]
     /\ \E grp \in Range(Get(gexpect, "must_include_any_after_approval", <<>>)) : ~FinalHasAny(grp)

\* The soft misses of a bucket, counted per entry.
TrajSoftMisses ==
  LET sc == Get(gexpect, "should_call_tools", <<>>)
  IN Cardinality({i \in DOMAIN sc : ~CalledAnywhere(sc[i])})
ContentSoftMisses ==
  LET si == Get(gexpect, "should_include_any", <<>>)
  IN Cardinality({i \in DOMAIN si : ~FinalHasAny(si[i])})
     + (IF /\ Truthy(gexpect, "should_ask_questions")
           /\ Questions < Get(gexpect["should_ask_questions"], "min_questions", 1)
        THEN 1 ELSE 0)

RECURSIVE Power(_, _)
Power(b, m) == IF m = 0 THEN 1 ELSE b * Power(b, m - 1)

\* C5: a bucket is exactly 0.0 whenever one of its hard checks is violated
\* (trajectory: a must_call_tools name absent from all turns, a
\* must_not_call_tools name present in a turn; content: a must_include_any
\* group with no keyword in the final text, fewer '?' than min_questions),
\* whatever the other checks say; with no hard check of the bucket violated
\* the bucket is exactly the product of its soft penalties and never 0:
\* trajectory = 0.85^m for m absent should_call_tools entries, content =
\* 0.9^n for n missed should_include_any groups / should_ask_questions.
C5_HardZeroesSoftCompounds ==
  gpc = "returned" =>
     /\ TrajHardListed => g.traj = Zero
     /\ ContentHardListed => g.content = Zero
     /\ TrajHard => g.traj = Zero
     /\ ContentHard => g.content = Zero
     /\ ~TrajHard =>
          /\ g.traj.n * Power(20, TrajSoftMisses) = Power(17, TrajSoftMisses) * g.traj.d
          /\ g.traj.n # 0
     /\ ~ContentHard =>
          /\ g.content.n * Power(10, ContentSoftMisses) = Power(9, ContentSoftMisses) * g.content.d
          /\ g.content.n # 0

\* Two recommended tools missed and nothing else: trajectory = 0.7225.
W5_TwoSoftMisses ==
  /\ gpc = "returned"
  /\ ~TrajHard
  /\ TrajSoftMisses = 2
  /\ g.traj.n * 10000 = 7225 * g.traj.d

InUnit(x) == 0 <= x.n /\ x.n <= x.d /\ x.d > 0

\* C6 as claimed: every GradeResult has each of its five scores in [0,1],
\* for every expectation, turn sequence and weights mapping.
C6_AllScoresInUnitInterval ==
  gpc = "returned" =>
     /\ InUnit(g.traj) /\ InUnit(g.content) /\ InUnit(g.safety) /\ InUnit(g.style)
     /\ InUnit(g.total)

\* The effective weights are non-negative and sum to at most 1.
WeightsNormal ==
  /\ \A b \in {"trajectory", "content", "safety", "style"} : Weight(gweights, b) >= 0
  /\ Weight(gweights, "trajectory") + Weight(gweights, "content")
       + Weight(gweights, "safety") + Weight(gweights, "style") <= 10

\* C6, amended: the four sub-scores start at 1.0, no check ever increases
\* one, and each is in [0,1] in every GradeResult; total is in [0,1]
\* whenever the effective weights are non-negative and sum to at most 1.
C6_SubScoresInUnitInterval ==
  /\ [](/\ InUnit(g.traj)
        /\ InUnit(g.content)
        /\ InUnit(g.safety)
        /\ InUnit(g.style)
        /\ gpc = "trajectory" =>
             (g.traj = One /\ g.content = One /\ g.safety = One /\ g.style = One)
        /\ (gpc = "returned" /\ WeightsNormal) => InUnit(g.total))
  /\ [][ /\ FracLeq(g'.traj, g.traj)
         /\ FracLeq(g'.content, g.content)
         /\ FracLeq(g'.safety, g.safety)
         /\ FracLeq(g'.style, g.style) ]_vars

\* A GradeResult with soft penalties in three buckets, under weights that
\* sum to 0.6.
W6_PenalisedUnderSmallWeights ==
  /\ gpc = "returned"
  /\ WeightsNormal
  /\ HasKey(gweights, "content")
  /\ g.traj.n # 0 /\ g.traj.n < g.traj.d
  /\ g.content.n < g.content.d
  /\ g.style.n < g.style.d
  /\ g.total.n > 0

(***************************************************************************)
(* Properties of the event extractor, checked under SpecExtract.           *)
(***************************************************************************)
\* C11: _last_assistant_text and _extract_function_calls_and_responses
\* never raise on a list of events, whatever the shape of the events: no
\* scan of the extractor ends in an exception.
C11_ExtractorNeverRaises == xerr = "ok" /\ xpc # "raised"

\* A descriptor: a mapping with a str name.
IsDescriptor(v) == v.t = "dict" /\ HasKey(v.d, "name") /\ v.d["name"].t = "str"

InvocationKeys == {"functionCall", "function_call"}
ResponseKeys == {"functionResponse", "function_response"}

\* A part of the standard shape: a mapping with one field, a str text or a
\* descriptor under a tool-invocation or tool-response key.
IsStandardPart(p) ==
  /\ p.t = "dict"
  /\ \E k \in {"text"} \cup InvocationKeys \cup ResponseKeys :
       /\ DOMAIN p.d = {k}
       /\ IF k = "text" THEN p.d[k].t = "str" ELSE IsDescriptor(p.d[k])

\* An event of the standard shape: nothing but a content with a role and a
\* list of standard parts, so that descriptors are in content.parts only.
IsStandardEvent(ev) ==
  /\ ev.t = "dict"
  /\ DOMAIN ev.d = {"content"}
  /\ ev.d["content"].t = "dict"
  /\ DOMAIN ev.d["content"].d = {"role", "parts"}
  /\ ev.d["content"].d["parts"].t = "list"
  /\ \A i \in DOMAIN ev.d["content"].d["parts"].l :
       IsStandardPart(ev.d["content"].d["parts"].l[i])

StandardShape(events) == \A i \in DOMAIN events : IsStandardEvent(events[i])

\* The names of the descriptors the parts of one standard event carry under
\* the given keys, in the order of the parts.
NamesUnder(keys, ev) ==
  LET with == SelectSeq(ev.d["content"].d["parts"].l,
                        LAMBDA p : DOMAIN p.d \subseteq keys)
  IN [i \in DOMAIN with |->
        with[i].d[CHOOSE k \in keys : k \in DOMAIN with[i].d].d["name"].s]

\* The names emitted by a standard event list, in emission order.
EmittedNames(keys, events) ==
  Flatten([i \in DOMAIN events |-> NamesUnder(keys, events[i])])

\* C12: for events of the standard shape, the tool_calls returned are exactly
\* the names of the tool-invocation descriptors in emission order, one entry
\* per descriptor, and the tool_responses likewise the names of the
\* tool-response descriptors, whether or not the other list is empty.
C12_CallsAreEmittedNames ==
  (xpc = "returned" /\ StandardShape(xevents)) =>
     /\ xcalls = EmittedNames(InvocationKeys, xevents)
     /\ xresponses = EmittedNames(ResponseKeys, xevents)

\* The parts an event holds in content.parts; none when it holds no such list.
PartsOf(ev) ==
  IF /\ ev.t = "dict"
     /\ HasKey(ev.d, "content")
     /\ ev.d["content"].t = "dict"
     /\ HasKey(ev.d["content"].d, "parts")
     /\ ev.d["content"].d["parts"].t = "list"
  THEN ev.d["content"].d["parts"].l
  ELSE <<>>

\* The text a part carries; "" when it carries no str text.
TextOf(p) ==
  IF p.t = "dict" /\ HasKey(p.d, "text") /\ p.d["text"].t = "str"
  THEN p.d["text"].s
  ELSE ""

\* The texts of the parts of an event, in the order of the parts.
TextsOf(ev) == [i \in DOMAIN PartsOf(ev) |-> TextOf(PartsOf(ev)[i])]

\* A text of whitespace only (the empty text included).
Blank(t) == \A i \in DOMAIN Chars(t) : IsSpace(Chars(t)[i])

NonEmptyTexts(ev) == SelectSeq(TextsOf(ev), LAMBDA t : t # "")
NonBlankTexts(ev) == SelectSeq(TextsOf(ev), LAMBDA t : ~Blank(t))

\* Given, event by event, the texts that count: the first of the latest
\* event that has any, "" when no event has one.
FirstOfLatest(texts) ==
  IF \A i \in DOMAIN texts : texts[i] = <<>> THEN ""
  ELSE LET k == CHOOSE k \in DOMAIN texts :
                  /\ texts[k] # <<>>
                  /\ \A j \in DOMAIN texts : j > k => texts[j] = <<>>
       IN Head(texts[k])

====
